---- MODULE Spec2Model ----
(***************************************************************************)
(* Model of 20250304.py: process_excel_hyperlinks and its helpers.         *)
(*                                                                         *)
(* The worksheet is a grid of cells, some of which carry a hyperlink.  A   *)
(* URL is represented by the raw extension of its path (the only part of   *)
(* the URL the program looks at).  The orchestrator runs in one thread;    *)
(* every submitted future is run by one of max_workers pool threads, and   *)
(* each pool thread may be preempted between any two statements.           *)
(***************************************************************************)
EXTENDS Integers, Sequences, FiniteSets, TLC

\* ---------------------------------------------------------------- bounds
MaxRow == 2
MaxCol == 2
MaxLinks == 2
MaxPages == 2
MaxWorkers == 2

\* --------------------------------------------------- program constants
ImgWidth == 180
ImgHeight == 120
ColWidth == 25
RowHeight == 120

video_exts_NoMp4 == {"avi", "mov", "mkv", "wmv"}

video_exts == {"mp4", "avi", "mov", "mkv", "wmv"}
image_exts == {"jpg", "jpeg", "png"}
required_files == {"pdftoppm.exe", "pdfinfo.exe"}

\* Raw path extensions of the URLs of the input workbook: none, a video,
\* an unsupported type, a PDF and the image extensions, one in upper case.
Urls == {"", "mp4", "txt", "pdf", "JPG", "jpeg", "png"}

\* Possible contents of the poppler directory.
PopplerFiles == required_files \cup {"pdftocairo.exe"}

VARIABLES
    hyperlink,      \* ws: function (row, col) -> url, for hyperlinked cells
    input,          \* the hyperlinks of the workbook as loaded (never written)
    ws_max_row,     \* ws.max_row
    ws_max_column,  \* ws.max_column
    max_workers,    \* parameter of process_excel_hyperlinks
    pc,             \* position of the orchestrator
    error,          \* exception that left process_excel_hyperlinks, or "none"
    missing_files,  \* missing_files of _validate_poppler (line 85)
    row_hyperlinks, \* result of _group_hyperlinks, in dict insertion order
    rowIdx,         \* position of the loop of line 35
    linkIdx,        \* position of the loop of line 39
    start_col,      \* start_col of the current row (line 37)
    allocated,      \* rows whose start_col has been computed
    futures,        \* submitted tasks, in submission order
    images,         \* ws._images, in insertion order
    log,            \* logging events, per link
    fetches,        \* number of requests.get calls, per link
    temp_exists,    \* the directory temp_dir exists
    files,          \* files of temp_dir
    width,          \* ws.column_dimensions[..].width, columns 1..Len(width)
    height,         \* ws.row_dimensions[..].height, rows 1..Len(height)
    saved           \* wb.save(output_path) has written the output

vars == <<hyperlink, input, ws_max_row, ws_max_column, max_workers, pc, error,
          missing_files, row_hyperlinks, rowIdx, linkIdx, start_col, allocated, futures,
          images, log, fetches, temp_exists, files, width, height, saved>>

wsVars == <<hyperlink, input, ws_max_row, ws_max_column, max_workers>>
orchVars == <<pc, error, missing_files, row_hyperlinks, rowIdx, linkIdx, start_col,
              allocated>>
dimVars == <<width, height, saved>>

\* ------------------------------------------------------- pure functions
Max(a, b) == IF a >= b THEN a ELSE b

SetMax(S) == CHOOSE x \in S : \A y \in S : y <= x

Cells == (1..MaxRow) \X (1..MaxCol)

\* str.lower() on the extensions that occur.
Lower(s) ==
    CASE s = "JPG" -> "jpg"
      [] s = "PNG" -> "png"
      [] s = "PDF" -> "pdf"
      [] s = "MP4" -> "mp4"
      [] OTHER -> s

\* _get_file_extension: the suffix after the last dot of the path, lowered.
get_file_extension_NoLower(url) == url

get_file_extension(url) == Lower(url)

\* _validate_poppler: TRUE iff no FileNotFoundError is raised.
validate_poppler_NoCheck(poppler_bin) == TRUE

validate_poppler(poppler_bin) == required_files \ poppler_bin = {}

\* Inner loop of _group_hyperlinks over the cells c, c+1, .. of row r.
RECURSIVE row_links(_, _, _, _)
row_links(h, maxc, r, c) ==
    IF c > maxc THEN <<>>
    ELSE (IF <<r, c>> \in DOMAIN h
          THEN <<[url |-> h[<<r, c>>], col |-> c]>>
          ELSE <<>>) \o row_links(h, maxc, r, c + 1)

\* Outer loop of _group_hyperlinks over the rows r, r+1, ..
RECURSIVE group_rows(_, _, _, _)
group_rows(h, maxr, maxc, r) ==
    IF r > maxr THEN <<>>
    ELSE (IF row_links(h, maxc, r, 1) # <<>>
          THEN <<[row |-> r, links |-> row_links(h, maxc, r, 1)]>>
          ELSE <<>>) \o group_rows(h, maxr, maxc, r + 1)

group_hyperlinks_SkipFirstRow(h, maxr, maxc) == group_rows(h, maxr, maxc, 2)

group_hyperlinks(h, maxr, maxc) == group_rows(h, maxr, maxc, 1)

\* links.sort(key=lambda x: x["col"]): a stable sort by column.
RECURSIVE insert_sorted(_, _)
insert_sorted(s, x) ==
    IF s = <<>> THEN <<x>>
    ELSE IF Head(s).col <= x.col THEN <<Head(s)>> \o insert_sorted(Tail(s), x)
    ELSE <<x>> \o s

RECURSIVE sort_links(_)
sort_links(s) ==
    IF s = <<>> THEN <<>>
    ELSE insert_sorted(sort_links(SubSeq(s, 1, Len(s) - 1)), s[Len(s)])

\* Loop of _find_insert_start_col over the cells c, c+1, .. of ws[row].
RECURSIVE scan_row(_, _, _, _, _)
scan_row(h, maxc, row, c, max_hyperlink_col) ==
    IF c > maxc THEN max_hyperlink_col
    ELSE scan_row(h, maxc, row, c + 1,
                  IF <<row, c>> \in DOMAIN h
                  THEN Max(max_hyperlink_col, c) ELSE max_hyperlink_col)

find_insert_start_col_NoPlusOne(h, maxc, row, link_count) ==
    IF link_count > 0 THEN scan_row(h, maxc, row, 1, 0) ELSE 0

find_insert_start_col(h, maxc, row, link_count) ==
    (IF link_count > 0 THEN scan_row(h, maxc, row, 1, 0) ELSE 0) + 1

\* Column of page page_num of a PDF (line 115).
page_col_OffByOne(col, page_num) == col + page_num

page_col(col, page_num) == col + page_num - 1

\* Order of the statements of the body of the loop of line 35.
loop_body_SubmitFirst(p) ==
    CASE p = "row" -> "submit"
      [] p = "submit" -> "alloc"
      [] OTHER -> "next"

loop_body(p) ==
    CASE p = "row" -> "alloc"
      [] p = "alloc" -> "submit"
      [] OTHER -> "next"

\* concurrent.futures.wait(futures) returns (ALL_COMPLETED).
wait_returns_FirstCompleted(fs) == \E i \in DOMAIN fs : fs[i].pc = "done"

wait_returns(fs) == \A i \in DOMAIN fs : fs[i].pc = "done"

\* The logging call of an except clause of _process_single_link.
log_error_Silent(l, cell, event) == l

log_error(l, cell, event) == [l EXCEPT ![cell] = Append(@, event)]

\* Number of pool threads that are running a task.
Running_NeverReleased(fs) == Cardinality({i \in DOMAIN fs : fs[i].pc # "queued"})

Running(fs) == Cardinality({i \in DOMAIN fs : fs[i].pc \notin {"queued", "done"}})

\* -------------------------------------------------------------- initial
Init ==
    /\ \E cells \in SUBSET Cells :
         /\ Cardinality(cells) <= MaxLinks
         /\ hyperlink \in [cells -> Urls]
         /\ \E r \in 1..MaxRow, c \in 1..MaxCol :
              /\ \A x \in cells : x[1] <= r /\ x[2] <= c
              /\ ws_max_row = r
              /\ ws_max_column = c
    /\ input = hyperlink
    /\ max_workers \in 1..MaxWorkers
    /\ pc = "makedirs"
    /\ error = "none"
    /\ missing_files = {}
    /\ row_hyperlinks = <<>>
    /\ rowIdx = 1
    /\ linkIdx = 1
    /\ start_col = 0
    /\ allocated = {}
    /\ futures = <<>>
    /\ images = <<>>
    /\ log = [x \in DOMAIN hyperlink |-> <<>>]
    /\ fetches = [x \in DOMAIN hyperlink |-> 0]
    /\ temp_exists = FALSE
    /\ files = {}
    /\ width = <<>>
    /\ height = <<>>
    /\ saved = FALSE


\* ---------------------------------------------------------- orchestrator
\* The orchestrator's position once the statement p of the loop body has run
\* for row index idx of the groups rh: <<pc, rowIdx>>.
After(p, idx, rh) ==
    IF loop_body(p) # "next" THEN <<loop_body(p), idx>>
    ELSE IF idx + 1 > Len(rh) THEN <<"wait", idx + 1>>
    ELSE <<loop_body("row"), idx + 1>>

\* line 23: os.makedirs(temp_dir, exist_ok=True)
Makedirs ==
    /\ pc = "makedirs"
    /\ temp_exists' = TRUE
    /\ pc' = "validate"
    /\ UNCHANGED <<wsVars, error, missing_files, row_hyperlinks, rowIdx, linkIdx, start_col,
                   allocated, futures, images, log, fetches, files, dimVars>>

\* line 24: _validate_poppler(poppler_path); the directory listing is read now.
Validate ==
    /\ pc = "validate"
    /\ \E poppler_bin \in SUBSET PopplerFiles :
         /\ missing_files' = required_files \ poppler_bin
         /\ IF validate_poppler(poppler_bin)
            THEN pc' = "load" /\ error' = error
            ELSE pc' = "aborted" /\ error' = "DependencyMissing"
    /\ UNCHANGED <<wsVars, row_hyperlinks, rowIdx, linkIdx, start_col, allocated,
                   futures, images, log, fetches, temp_exists, files, dimVars>>

\* lines 26-35: load the workbook, group the hyperlinks, enter the pool and
\* the loop over the rows.
Load ==
    /\ pc = "load"
    /\ row_hyperlinks' = group_hyperlinks(hyperlink, ws_max_row, ws_max_column)
    /\ rowIdx' = 1
    /\ pc' = IF row_hyperlinks' = <<>> THEN "wait" ELSE loop_body("row")
    /\ UNCHANGED <<wsVars, error, missing_files, linkIdx, start_col, allocated, futures, images,
                   log, fetches, temp_exists, files, dimVars>>

\* lines 36-37: sort the links of the row and compute its start column.
AllocRow ==
    /\ pc = "alloc"
    /\ LET g == row_hyperlinks[rowIdx]
           sorted == sort_links(g.links)
       IN /\ row_hyperlinks' = [row_hyperlinks EXCEPT ![rowIdx].links = sorted]
          /\ start_col' = find_insert_start_col(hyperlink, ws_max_column,
                                                g.row, Len(sorted))
          /\ allocated' = allocated \cup {g.row}
    /\ pc' = After("alloc", rowIdx, row_hyperlinks)[1]
    /\ rowIdx' = After("alloc", rowIdx, row_hyperlinks)[2]
    /\ UNCHANGED <<wsVars, error, missing_files, linkIdx, futures, images, log, fetches,
                   temp_exists, files, dimVars>>

\* lines 39-46: submit the task of the next link of the row.
Submit ==
    /\ pc = "submit"
    /\ LET g == row_hyperlinks[rowIdx]
           link == g.links[linkIdx]
           last == linkIdx = Len(g.links)
       IN /\ futures' = Append(futures,
                 [link |-> link, row |-> g.row,
                  start_col |-> start_col + (linkIdx - 1),
                  pc |-> "queued", ext |-> "", page_num |-> 0, pages |-> -1,
                  exc |-> "none"])
          /\ linkIdx' = IF last THEN 1 ELSE linkIdx + 1
          /\ pc' = IF last THEN After("submit", rowIdx, row_hyperlinks)[1] ELSE pc
          /\ rowIdx' = IF last THEN After("submit", rowIdx, row_hyperlinks)[2]
                       ELSE rowIdx
    /\ UNCHANGED <<wsVars, error, missing_files, row_hyperlinks, start_col, allocated, images,
                   log, fetches, temp_exists, files, dimVars>>

\* line 48 and the exit of the with block: join every future.
Wait ==
    /\ pc = "wait"
    /\ wait_returns(futures)
    /\ pc' = "adjust"
    /\ UNCHANGED <<wsVars, error, missing_files, row_hyperlinks, rowIdx, linkIdx, start_col,
                   allocated, futures, images, log, fetches, temp_exists, files,
                   dimVars>>

\* _adjust_dimensions(ws)
adjust_columns(maxc) == [c \in 1..maxc |-> ColWidth]

adjust_rows(maxr) == [r \in 1..maxr |-> RowHeight]

\* line 51
Adjust ==
    /\ pc = "adjust"
    /\ width' = adjust_columns(ws_max_column)
    /\ height' = adjust_rows(ws_max_row)
    /\ pc' = "save"
    /\ UNCHANGED <<wsVars, error, missing_files, row_hyperlinks, rowIdx, linkIdx, start_col,
                   allocated, futures, images, log, fetches, temp_exists, files,
                   saved>>

\* line 53: wb.save(output_path), which may raise.
Save_CleanupOnFailure ==
    /\ pc = "save"
    /\ \E ok \in BOOLEAN :
         IF ok
         THEN /\ saved' = TRUE /\ pc' = "rmtree" /\ error' = error
              /\ UNCHANGED <<temp_exists, files>>
         ELSE /\ saved' = saved /\ pc' = "aborted" /\ error' = "DocumentPersistError"
              /\ temp_exists' = FALSE /\ files' = {}
    /\ UNCHANGED <<wsVars, missing_files, row_hyperlinks, rowIdx, linkIdx,
                   start_col, allocated, futures, images, log, fetches,
                   width, height>>

Save ==
    /\ pc = "save"
    /\ \E ok \in BOOLEAN :
         IF ok
         THEN saved' = TRUE /\ pc' = "rmtree" /\ error' = error
         ELSE saved' = saved /\ pc' = "aborted" /\ error' = "DocumentPersistError"
    /\ UNCHANGED <<wsVars, missing_files, row_hyperlinks, rowIdx, linkIdx,
                   start_col, allocated, futures, images, log, fetches,
                   temp_exists, files, width, height>>

\* line 54: shutil.rmtree(temp_dir)
Rmtree ==
    /\ pc = "rmtree"
    /\ temp_exists' = FALSE
    /\ files' = {}
    /\ pc' = "done"
    /\ UNCHANGED <<wsVars, error, missing_files, row_hyperlinks, rowIdx, linkIdx, start_col,
                   allocated, futures, images, log, fetches, dimVars>>

\* --------------------------------------------------------------- workers
Cell(t) == <<t.row, t.link.col>>

\* The task returns normally.
Return(i) == [futures EXCEPT ![i].pc = "done"]

\* An except clause of lines 122-125: log the error, swallow the exception.
Except_Retry(i, e) ==
    /\ futures' = [futures EXCEPT ![i].pc = IF e = "RequestException"
                                            THEN "fetch" ELSE "done",
                                  ![i].exc = e]
    /\ log' = log_error(log, Cell(futures[i]),
                        IF e = "RequestException" THEN "DownloadFailed"
                        ELSE "ProcessingError")

Except(i, e) ==
    /\ futures' = [futures EXCEPT ![i].pc = "done", ![i].exc = e]
    /\ log' = log_error(log, Cell(futures[i]),
                        IF e = "RequestException" THEN "DownloadFailed"
                        ELSE "ProcessingError")

\* A pool thread takes the oldest queued task.
Start(i) ==
    /\ futures[i].pc = "queued"
    /\ \A j \in 1..(i - 1) : futures[j].pc # "queued"
    /\ Running(futures) < max_workers
    /\ futures' = [futures EXCEPT ![i].pc = "fetch"]
    /\ UNCHANGED <<wsVars, orchVars, images, log, fetches, temp_exists, files,
                   dimVars>>

\* lines 93-102: fetch the URL and classify it by extension.
Fetch(i) ==
    /\ futures[i].pc = "fetch"
    /\ fetches' = [fetches EXCEPT ![Cell(futures[i])] = @ + 1]
    /\ \E ok \in BOOLEAN :
         LET ext == get_file_extension(futures[i].link.url) IN
         IF ~ok THEN Except(i, "RequestException")
         ELSE IF ext = ""
         THEN /\ futures' = Return(i)
              /\ log' = [log EXCEPT ![Cell(futures[i])] = Append(@, "UnrecognizedType")]
         ELSE IF ext \in video_exts
         THEN /\ futures' = Return(i)
              /\ log' = [log EXCEPT ![Cell(futures[i])] = Append(@, "SkippedVideo")]
         ELSE /\ futures' = [futures EXCEPT ![i].pc = "write", ![i].ext = ext]
              /\ log' = log
    /\ UNCHANGED <<wsVars, orchVars, images, temp_exists, files, dimVars>>

\* File names of the scratch directory: row{r}_col{c}.{ext} is the record with
\* page 0, row{r}_col{c}_p{k}.jpg the record with page k.
raw_path_NoCol(t) == [row |-> t.row, col |-> 0, page |-> 0, ext |-> t.ext]

raw_path(t) == [row |-> t.row, col |-> t.link.col, page |-> 0, ext |-> t.ext]

page_path(t) == [row |-> t.row, col |-> t.link.col, page |-> t.page_num, ext |-> "jpg"]

\* lines 104-110, 116-120: write the download to file_path and branch on ext.
Write(i) ==
    /\ futures[i].pc = "write"
    /\ LET t == futures[i] IN
       \E r \in {"ok", "RequestException", "Exception"}, created \in BOOLEAN :
         /\ r = "ok" => (created /\ temp_exists)
         /\ created => temp_exists
         /\ files' = IF created THEN files \cup {raw_path(t)} ELSE files
         /\ IF r # "ok" THEN Except(i, r)
            ELSE IF t.ext = "pdf"
            THEN futures' = [futures EXCEPT ![i].pc = "convert"] /\ log' = log
            ELSE IF t.ext \in image_exts
            THEN futures' = [futures EXCEPT ![i].pc = "insert"] /\ log' = log
            ELSE /\ futures' = Return(i)
                 /\ log' = [log EXCEPT ![Cell(t)] = Append(@, "UnsupportedType")]
    /\ UNCHANGED <<wsVars, orchVars, images, fetches, temp_exists, dimVars>>

\* lines 111-112: rasterize the PDF into k pages.
Convert(i) ==
    /\ futures[i].pc = "convert"
    /\ \/ \E k \in 0..MaxPages :
            /\ futures' = [futures EXCEPT ![i].pages = k,
                              ![i].page_num = IF k = 0 THEN 0 ELSE 1,
                              ![i].pc = IF k = 0 THEN "done" ELSE "save"]
            /\ log' = log
       \/ Except(i, "Exception")
    /\ UNCHANGED <<wsVars, orchVars, images, fetches, temp_exists, files, dimVars>>

\* lines 113-114: save the page image.
SavePage(i) ==
    /\ futures[i].pc = "save"
    /\ \/ /\ temp_exists
          /\ files' = files \cup {page_path(futures[i])}
          /\ futures' = [futures EXCEPT ![i].pc = "insert"]
          /\ log' = log
       \/ /\ files' = files
          /\ Except(i, "Exception")
    /\ UNCHANGED <<wsVars, orchVars, images, fetches, temp_exists, dimVars>>

\* The image _insert_image builds (lines 134-136) for the task's current file.
insert_image_AtLinkCol(t) ==
    [row |-> t.row,
     col |-> IF t.ext = "pdf" THEN page_col(t.link.col, t.page_num) ELSE t.link.col,
     width |-> ImgWidth, height |-> ImgHeight,
     path |-> IF t.ext = "pdf" THEN page_path(t) ELSE raw_path(t)]

insert_image(t) ==
    [row |-> t.row,
     col |-> IF t.ext = "pdf" THEN page_col(t.start_col, t.page_num) ELSE t.start_col,
     width |-> ImgWidth, height |-> ImgHeight,
     path |-> IF t.ext = "pdf" THEN page_path(t) ELSE raw_path(t)]

\* lines 115/118, 134-137: open the image, size it and call ws.add_image.
InsertImage(i) ==
    /\ futures[i].pc = "insert"
    /\ \/ futures' = [futures EXCEPT ![i].pc = "add_image"] /\ log' = log
       \/ Except(i, "Exception")
    /\ UNCHANGED <<wsVars, orchVars, images, fetches, temp_exists, files, dimVars>>

\* line 137: ws.add_image appends to ws._images and returns; then the next
\* page of the PDF, or the end of the task.
AddImage_LinksCell(i) ==
    /\ futures[i].pc = "add_image"
    /\ images' = Append(images, insert_image(futures[i]))
    /\ LET t == futures[i]
           img == insert_image(t)
           cell == <<img.row, img.col>>
       IN /\ futures' = IF t.ext = "pdf" /\ t.page_num < t.pages
                        THEN [futures EXCEPT ![i].page_num = @ + 1, ![i].pc = "save"]
                        ELSE Return(i)
          /\ hyperlink' = [x \in DOMAIN hyperlink \cup {cell} |->
                             IF x = cell THEN t.link.url ELSE hyperlink[x]]
    /\ UNCHANGED <<input, ws_max_row, ws_max_column, max_workers, orchVars, log,
                   fetches, temp_exists, files, dimVars>>

AddImage(i) ==
    /\ futures[i].pc = "add_image"
    /\ images' = Append(images, insert_image(futures[i]))
    /\ LET t == futures[i] IN
       futures' = IF t.ext = "pdf" /\ t.page_num < t.pages
                  THEN [futures EXCEPT ![i].page_num = @ + 1, ![i].pc = "save"]
                  ELSE Return(i)
    /\ UNCHANGED <<wsVars, orchVars, log, fetches, temp_exists, files, dimVars>>

Worker(i) ==
    \/ Start(i)
    \/ Fetch(i)
    \/ Write(i)
    \/ Convert(i)
    \/ SavePage(i)
    \/ InsertImage(i)
    \/ AddImage(i)

Next ==
    \/ Makedirs
    \/ Validate
    \/ Load
    \/ AllocRow
    \/ Submit
    \/ Wait
    \/ Adjust
    \/ Save
    \/ Rmtree
    \/ \E i \in DOMAIN futures : Worker(i)

Spec == Init /\ [][Next]_vars

\* The orchestrator thread and the pool threads are scheduled by the operating
\* system, and every blocking call returns or raises (requests.get has a
\* timeout): a step that can be taken is eventually taken.
FairSpec == Spec /\ WF_vars(Next)


\* ---------------------------------------------------------------- claims
\* The link (hyperlinked cell) an image of ws._images was made for.
LinkOf(img) == <<img.path.row, img.path.col>>

\* Positions in ws._images of the images made for the link of cell.
ImagesOf(cell) == {k \in DOMAIN images : LinkOf(images[k]) = cell}

\* Columns of the hyperlinked cells of row r of the input workbook.
HyperCols(r) == {x[2] : x \in {y \in DOMAIN hyperlink : y[1] = r}}

HyperRows == {x[1] : x \in DOMAIN hyperlink}

Joined == pc \in {"adjust", "save", "rmtree", "done"}
          \/ (pc = "aborted" /\ error = "DocumentPersistError")

\* C1: no two workers of distinct links embed an image at the same
\* (row, column) cell.
C1_DistinctSlots ==
    \A a, b \in DOMAIN images :
        (images[a].row = images[b].row /\ images[a].col = images[b].col)
            => LinkOf(images[a]) = LinkOf(images[b])

\* C2: at most one worker at a time is inside ws.add_image.
C2_MutualExclusion ==
    Cardinality({i \in DOMAIN futures : futures[i].pc = "add_image"}) <= 1

\* C3: every task's slot is (largest hyperlinked column of its row) + 1 + i,
\* where i is the rank of its link among the row's links by column; the tasks
\* of a row are submitted in ascending column order; and once every row has
\* been dispatched each hyperlinked cell has exactly one task.
C3_ContiguousSlots ==
    /\ \A i \in DOMAIN futures :
         LET t == futures[i] IN
         /\ Cell(t) \in DOMAIN hyperlink
         /\ t.start_col = SetMax(HyperCols(t.row)) + 1
                          + Cardinality({c \in HyperCols(t.row) : c < t.link.col})
    /\ \A i, j \in DOMAIN futures :
         (i < j /\ futures[i].row = futures[j].row)
            => /\ futures[i].link.col < futures[j].link.col
               /\ futures[i].start_col < futures[j].start_col
    /\ (pc = "wait" \/ Joined) =>
         \A x \in DOMAIN hyperlink :
            Cardinality({i \in DOMAIN futures : Cell(futures[i]) = x}) = 1

C3_Witness ==
    \E i, j \in DOMAIN futures :
        /\ i < j
        /\ futures[i].row = futures[j].row
        /\ futures[i].start_col = 3
        /\ futures[j].start_col = 4

C5_TailAfterJoin ==
    /\ [](Joined => /\ \A x \in DOMAIN hyperlink :
                         \E i \in DOMAIN futures : Cell(futures[i]) = x
                    /\ \A i \in DOMAIN futures : futures[i].pc = "done")
    /\ [][Joined => (images' = images /\ files' \subseteq files)]_vars

C5_Witness ==
    /\ pc = "adjust"
    /\ images # <<>>
    /\ \E i \in DOMAIN futures : futures[i].exc # "none"

ErrorEvents == {"DownloadFailed", "ProcessingError"}

\* The images of a task that ran to its end without an exception: all pages
\* of a PDF, one image of an image link, none otherwise.
Expected(t) ==
    IF t.ext = "pdf" THEN t.pages ELSE IF t.ext \in image_exts THEN 1 ELSE 0

\* C6: a failing link logs exactly one error event and nothing else; every
\* finished link that did not fail has all its images embedded, whatever
\* happened to the other links; no worker's exception leaves the orchestrator.
C6_FailureIsolation ==
    /\ \A i \in DOMAIN futures :
         LET t == futures[i] IN
         /\ t.exc # "none" =>
               /\ t.pc = "done"
               /\ Len(log[Cell(t)]) = 1
               /\ log[Cell(t)][1] \in ErrorEvents
         /\ t.exc = "none" =>
               \A k \in DOMAIN log[Cell(t)] : log[Cell(t)][k] \notin ErrorEvents
         /\ (t.pc = "done" /\ t.exc = "none") =>
               Cardinality(ImagesOf(Cell(t))) = Expected(t)
    /\ error \in {"none", "DependencyMissing", "DocumentPersistError"}
    /\ (\E i \in DOMAIN futures : futures[i].exc # "none") => pc # "aborted" \/ Joined

C6_Witness ==
    /\ pc = "done"
    /\ \E i, j \in DOMAIN futures :
         /\ futures[i].exc # "none"
         /\ futures[j].exc = "none"
         /\ ImagesOf(Cell(futures[j])) # {}

\* C7: a link whose worker failed has no image in the Document.
C7_FailureIsNoOp ==
    \A i \in DOMAIN futures :
        futures[i].exc # "none" => ImagesOf(Cell(futures[i])) = {}

\* C8: when required poppler files are missing, nothing is dispatched, nothing
\* is fetched, nothing is embedded and the output is never written.
C8_DependencyMissingAborts ==
    missing_files # {} =>
        /\ futures = <<>>
        /\ \A x \in DOMAIN hyperlink : fetches[x] = 0
        /\ images = <<>>
        /\ ~saved
        /\ pc = "aborted"
        /\ error = "DependencyMissing"

C8_Witness ==
    /\ pc = "aborted"
    /\ missing_files = {"pdfinfo.exe"}
    /\ DOMAIN hyperlink # {}

\* Position of the task of a link in submission order.
TaskOf(cell) == CHOOSE i \in DOMAIN futures : Cell(futures[i]) = cell

\* C9: the stacking order of the images of every cell is the one of the run
\* that processes the links one after the other in submission order, whatever
\* the interleaving.
C9_LayoutDeterministic ==
    \A a, b \in DOMAIN images :
        (a < b /\ images[a].row = images[b].row /\ images[a].col = images[b].col)
            => \/ TaskOf(LinkOf(images[a])) < TaskOf(LinkOf(images[b]))
               \/ /\ LinkOf(images[a]) = LinkOf(images[b])
                  /\ images[a].path.page < images[b].path.page

\* The images of task t are exactly its pages 1..t.pages, page p anchored at
\* (row, slot + p - 1).
PagesEmbedded(t) ==
    /\ Cardinality(ImagesOf(Cell(t))) = t.pages
    /\ \A p \in 1..t.pages :
         \E k \in ImagesOf(Cell(t)) :
            /\ images[k].path.page = p
            /\ images[k].row = t.row
            /\ images[k].col = t.start_col + p - 1

IsImageUrl(u) == u \in {"jpg", "JPG", "jpeg", "JPEG", "png", "PNG"}

IsPdfUrl(u) == u \in {"pdf", "PDF"}

IsVideoUrl(u) == u \in {"mp4", "MP4", "avi", "AVI", "mov", "MOV", "mkv", "MKV",
                        "wmv", "WMV"}

\* The link of task t has exactly one image, at (row, slot), sized 180x120.
OneImage(t) ==
    /\ Cardinality(ImagesOf(Cell(t))) = 1
    /\ \A k \in ImagesOf(Cell(t)) :
         /\ images[k].row = t.row
         /\ images[k].col = t.start_col
         /\ images[k].width = 180
         /\ images[k].height = 120

ClassEvent(u) ==
    IF u = "" THEN "UnrecognizedType"
    ELSE IF IsVideoUrl(u) THEN "SkippedVideo"
    ELSE "UnsupportedType"

NotRenderable(u) == ~IsPdfUrl(u) /\ ~IsImageUrl(u)

ClassEvents == {"UnrecognizedType", "SkippedVideo", "UnsupportedType"}

\* C12 as stated: a finished link that is not renderable by type has no image
\* and exactly one log event, the classification event of its kind, whatever
\* the outcome of its fetch.
C12_Classified ==
    \A i \in DOMAIN futures :
        LET t == futures[i] IN
        (t.pc = "done" /\ NotRenderable(t.link.url)) =>
            /\ ImagesOf(Cell(t)) = {}
            /\ log[Cell(t)] = <<ClassEvent(t.link.url)>>

\* C12 as amended: a link that is not renderable by type never has an image;
\* finished without an exception it has logged exactly its classification
\* event; finished with an exception it has logged one error event and no
\* classification event.
C12_ClassifiedUnlessError ==
    \A i \in DOMAIN futures :
        LET t == futures[i] IN
        NotRenderable(t.link.url) =>
            /\ ImagesOf(Cell(t)) = {}
            /\ (t.pc = "done" /\ t.exc = "none") =>
                  log[Cell(t)] = <<ClassEvent(t.link.url)>>
            /\ (t.pc = "done" /\ t.exc # "none") =>
                  /\ Len(log[Cell(t)]) = 1
                  /\ log[Cell(t)][1] \in ErrorEvents
            /\ t.pc # "done" => log[Cell(t)] = <<>>

C12_Witness ==
    \E i, j \in DOMAIN futures :
        /\ futures[i].link.url = "mp4" /\ log[Cell(futures[i])] = <<"SkippedVideo">>
        /\ futures[j].link.url = "txt" /\ log[Cell(futures[j])] = <<"UnsupportedType">>


\* _adjust_dimensions has run.
Normalized == pc \in {"save", "rmtree", "done"}
              \/ (pc = "aborted" /\ error = "DocumentPersistError")

\* C13: once the normalizer has run, every column of the sheet's extent and
\* every column holding a thumbnail has width 25, and every such row has
\* height 120.
C13_AllUsedSized ==
    Normalized =>
        /\ \A c \in (1..ws_max_column) \cup {images[k].col : k \in DOMAIN images} :
              c \in DOMAIN width /\ width[c] = 25
        /\ \A r \in (1..ws_max_row) \cup {images[k].row : k \in DOMAIN images} :
              r \in DOMAIN height /\ height[r] = 120

C15_ScratchLifecycle ==
    /\ (futures # <<>> /\ pc # "done") => temp_exists
    /\ (\E i \in DOMAIN futures : futures[i].pc # "done") => temp_exists
    /\ files # {} => temp_exists
    /\ (~temp_exists /\ pc # "makedirs") => (saved /\ pc = "done")
    /\ pc = "done" => (~temp_exists /\ files = {} /\ saved)
    /\ pc = "aborted" => temp_exists

C15_Witness ==
    /\ pc = "aborted"
    /\ error = "DocumentPersistError"
    /\ files # {}
    /\ temp_exists


\* Tasks submitted for the hyperlinked cell x.
TasksOf(x) == {i \in DOMAIN futures : Cell(futures[i]) = x}

\* C16: at most one task per hyperlinked cell, exactly one once every row is
\* dispatched, none for any other cell; a link is fetched once when its task
\* has passed the fetch and never before, so never twice.
C16_OneTaskOneFetch ==
    /\ \A i \in DOMAIN futures : Cell(futures[i]) \in DOMAIN hyperlink
    /\ \A x \in DOMAIN hyperlink :
         /\ Cardinality(TasksOf(x)) <= 1
         /\ (pc = "wait" \/ Joined) => Cardinality(TasksOf(x)) = 1
         /\ fetches[x] =
              IF \E i \in TasksOf(x) : futures[i].pc \notin {"queued", "fetch"}
              THEN 1 ELSE 0

C16_Witness ==
    /\ pc = "done"
    /\ \E i, j \in DOMAIN futures :
         /\ i # j
         /\ futures[i].exc = "RequestException"
         /\ fetches[Cell(futures[i])] = 1
         /\ fetches[Cell(futures[j])] = 1


\* _group_hyperlinks has returned.
Extracted == pc \notin {"makedirs", "validate", "load"} /\ error # "DependencyMissing"

\* Positions <<g, l>> of the descriptors of row_hyperlinks.
Descriptors ==
    UNION {{<<g, l>> : l \in DOMAIN row_hyperlinks[g].links} : g \in DOMAIN row_hyperlinks}

\* C17: the extractor's result holds every hyperlinked cell exactly once, with
\* its URL, under its own row, and nothing else; the descriptors of a row are
\* in ascending column order; the extraction changes neither the hyperlinks
\* nor the images.
C17_ExtractorComplete ==
    /\ [](Extracted =>
            /\ {<<row_hyperlinks[d[1]].row, row_hyperlinks[d[1]].links[d[2]].col,
                  row_hyperlinks[d[1]].links[d[2]].url>> : d \in Descriptors}
                 = {<<x[1], x[2], hyperlink[x]>> : x \in DOMAIN hyperlink}
            /\ Cardinality(Descriptors) = Cardinality(DOMAIN hyperlink)
            /\ \A g, k \in DOMAIN row_hyperlinks :
                  g # k => row_hyperlinks[g].row # row_hyperlinks[k].row
            /\ \A g \in DOMAIN row_hyperlinks :
                  LET links == row_hyperlinks[g].links IN
                  /\ links # <<>>
                  /\ \A a, b \in DOMAIN links : a < b => links[a].col < links[b].col)
    /\ [][pc = "load" => (hyperlink' = hyperlink /\ images' = images)]_vars

C17_Witness ==
    /\ pc = "alloc"
    /\ futures = <<>>
    /\ Len(row_hyperlinks) = 2
    /\ Len(row_hyperlinks[2].links) = 1
    /\ row_hyperlinks[2].links[1].col = 2


\* C18: every image is anchored in the row of its link, right of every
\* hyperlinked cell of that row; two images share a cell only if one of them
\* is page 2 or later of a PDF; if no link has more than one image, all images
\* are in distinct cells.
C18_RightOfHyperlinks ==
    /\ \A k \in DOMAIN images :
         /\ images[k].row = LinkOf(images[k])[1]
         /\ \A c \in HyperCols(images[k].row) : images[k].col > c
         /\ <<images[k].row, images[k].col>> \notin DOMAIN hyperlink
    /\ \A a, b \in DOMAIN images :
         (a # b /\ images[a].row = images[b].row /\ images[a].col = images[b].col)
            => (images[a].path.page >= 2 \/ images[b].path.page >= 2)
    /\ (\A x \in DOMAIN hyperlink : Cardinality(ImagesOf(x)) <= 1) =>
         \A a, b \in DOMAIN images :
            a # b => <<images[a].row, images[a].col>> # <<images[b].row, images[b].col>>

C18_Witness ==
    \E a, b \in DOMAIN images :
        /\ LinkOf(images[a]) # LinkOf(images[b])
        /\ images[a].row = images[b].row
        /\ images[a].col = images[b].col
        /\ images[a].path.page = 2
        /\ images[b].path.page = 0


\* Columns of the hyperlinked cells of row r of the workbook as loaded.
InputCols(r) == {x[2] : x \in {y \in DOMAIN input : y[1] = r}}

\* C19: no step changes a hyperlink of the worksheet, and the slot of every
\* task, whatever the workers of earlier rows had done when its row was
\* allocated, is the one computed from the workbook as loaded.
C19_HyperlinksUntouched ==
    /\ [][hyperlink' = hyperlink]_vars
    /\ [](hyperlink = input)
    /\ [](\A i \in DOMAIN futures :
            LET t == futures[i] IN
            t.start_col = SetMax(InputCols(t.row)) + 1
                          + Cardinality({c \in InputCols(t.row) : c < t.link.col}))

C19_Witness ==
    /\ pc = "submit"
    /\ rowIdx = 2
    /\ images # <<>>
    /\ \E i \in DOMAIN futures : futures[i].pc \notin {"queued", "done"}


\* The scratch files task t writes: its download, once the extension is known,
\* and its page images.
PathsOf(t) ==
    (IF t.ext # "" THEN {raw_path(t)} ELSE {})
    \cup {page_path([t EXCEPT !.page_num = k]) : k \in 1..MaxPages}

\* C20: the files of distinct tasks are distinct, and every file of the
\* scratch directory is a file of exactly one task.
C20_DistinctScratchFiles ==
    /\ \A i, j \in DOMAIN futures :
         i # j => PathsOf(futures[i]) \cap PathsOf(futures[j]) = {}
    /\ \A f \in files :
         Cardinality({i \in DOMAIN futures : f \in PathsOf(futures[i])}) = 1

C20_Witness ==
    \E i, j \in DOMAIN futures :
        /\ i # j
        /\ futures[i].row = futures[j].row
        /\ futures[i].ext = futures[j].ext
        /\ futures[i].pc \notin {"queued", "done"}
        /\ futures[j].pc \notin {"queued", "done"}
        /\ raw_path(futures[i]) \in files
        /\ raw_path(futures[j]) \in files
        /\ page_path(futures[i]) \in files

====
